---- MODULE Spec2Model ----
(***************************************************************************)
(* A model of sump-dump (src/sump-dump.c): the SUMP command encoders, the  *)
(* handshake, the derivation of the capture configuration, the capture     *)
(* sequence and the three output formatters.                               *)
(*                                                                         *)
(* The program's uint32_t and double values do not fit TLC's integers, so  *)
(* every machine word is kept as four 16-bit limbs, least significant      *)
(* first (a 64-bit natural); the uint32_t operations truncate to the two   *)
(* low limbs, as the C operations do.                                      *)
(***************************************************************************)
EXTENDS Integers, Sequences, FiniteSets, TLC

VARIABLES
    pc,         \* the statement the program is at
    ctr,        \* the counter i of the for loop the program is in
    status,     \* "running", or how the process ended
    args,       \* struct args: the whole command line, argv[2] onwards
    argv,       \* the options of args not yet taken by the option loop
    cfg,        \* struct cfg
    after_trig, \* main's after_trig
    wire,       \* every byte written to the transport so far, in order
    eof,        \* the transport is at end-of-file: read() returns 0 from now on
    rd,         \* the read_tty call in progress
    ident,      \* read_ident's ident[4]
    cmd,        \* the struct cmd last built by an encoder
    call,       \* the encoder call that built cmd
    cap,        \* capture's locals
    buf,        \* capture's sample buffer
    fmt,        \* the output formatter's locals
    meta,       \* read_ident's metadata loop and the device's metadata stream
    out         \* what has been written to stdout

vars == <<pc, ctr, status, args, argv, cfg, after_trig, wire, eof, rd, ident, cmd, call,
          cap, buf, fmt, meta, out>>

(***************************************************************************)
(* Machine words                                                           *)
(***************************************************************************)
Base == 65536

\* The word holding the natural n (n within TLC's integers).
W(n) == <<n % Base, n \div Base, 0, 0>>

\* The word with the two 16-bit halves of a uint32_t given.
W32(hi, lo) == <<lo, hi, 0, 0>>

IsSmall(a) == a[2] < 32768 /\ a[3] = 0 /\ a[4] = 0

\* The natural a word holds, when it fits TLC's integers.
N(a) == a[1] + Base * a[2]

Trunc32(a) == <<a[1], a[2], 0, 0>>

UINT32_MAX == W32(65535, 65535)

WAdd(a, b) ==
    LET s1 == a[1] + b[1]
        s2 == a[2] + b[2] + s1 \div Base
        s3 == a[3] + b[3] + s2 \div Base
        s4 == a[4] + b[4] + s3 \div Base
    IN  <<s1 % Base, s2 % Base, s3 % Base, s4 % Base>>

WSub(a, b) ==
    LET d1 == a[1] - b[1]
        d2 == a[2] - b[2] - (IF d1 < 0 THEN 1 ELSE 0)
        d3 == a[3] - b[3] - (IF d2 < 0 THEN 1 ELSE 0)
        d4 == a[4] - b[4] - (IF d3 < 0 THEN 1 ELSE 0)
    IN  <<d1 % Base, d2 % Base, d3 % Base, d4 % Base>>

\* a * k for a small k (k < 2^15)
WMulSmall(a, k) ==
    LET p1 == a[1] * k
        p2 == a[2] * k + p1 \div Base
        p3 == a[3] * k + p2 \div Base
        p4 == a[4] * k + p3 \div Base
    IN  <<p1 % Base, p2 % Base, p3 % Base, p4 % Base>>

WLt(a, b) ==
    \/ a[4] < b[4]
    \/ a[4] = b[4] /\ a[3] < b[3]
    \/ a[4] = b[4] /\ a[3] = b[3] /\ a[2] < b[2]
    \/ a[4] = b[4] /\ a[3] = b[3] /\ a[2] = b[2] /\ a[1] < b[1]

WLe(a, b) == a = b \/ WLt(a, b)

WZero == <<0, 0, 0, 0>>

\* a / k and a % k for a small k (0 < k < 2^15), by short division
WDivSmall(a, k) ==
    LET q4 == a[4] \div k
        r4 == a[4] % k
        q3 == (r4 * Base + a[3]) \div k
        r3 == (r4 * Base + a[3]) % k
        q2 == (r3 * Base + a[2]) \div k
        r2 == (r3 * Base + a[2]) % k
        q1 == (r2 * Base + a[1]) \div k
    IN  <<q1, q2, q3, q4>>

WModSmall(a, k) ==
    LET r4 == a[4] % k
        r3 == (r4 * Base + a[3]) % k
        r2 == (r3 * Base + a[2]) % k
    IN  (r2 * Base + a[1]) % k

WShl1(a) == WAdd(a, a)

WBit(a, i) == (a[(i \div 16) + 1] \div (2 ^ (i % 16))) % 2

RECURSIVE WDivLoop(_, _, _, _, _)
WDivLoop(a, b, bit, q, r) ==
    IF bit < 0 THEN q
    ELSE LET r1 == WAdd(WShl1(r), W(WBit(a, bit)))
             ge == WLe(b, r1)
             qn == IF ge THEN WAdd(WShl1(q), W(1)) ELSE WShl1(q)
             rn == IF ge THEN WSub(r1, b) ELSE r1
         IN  \* the comparison has TLC compute qn and rn before it goes on
             IF WLe(qn, rn) THEN WDivLoop(a, b, bit - 1, qn, rn)
             ELSE WDivLoop(a, b, bit - 1, qn, rn)

\* a / b (b # 0), by long division
WDiv(a, b) ==
    IF b[2] = 0 /\ b[3] = 0 /\ b[4] = 0 /\ b[1] < 32768
    THEN WDivSmall(a, b[1])
    ELSE WDivLoop(a, b, 63, WZero, WZero)

\* a * b (mod 2^64), b a uint32_t
WMul(a, b) ==
    LET lo1 == WMulSmall(a, b[1] % 256)
        lo2 == WMulSmall(WMulSmall(a, b[1] \div 256), 256)
        sh(x) == <<0, x[1], x[2], x[3]>>
        hi1 == sh(WMulSmall(a, b[2] % 256))
        hi2 == sh(WMulSmall(WMulSmall(a, b[2] \div 256), 256))
    IN  WAdd(WAdd(lo1, lo2), WAdd(hi1, hi2))

RECURSIVE And16(_, _, _)
And16(x, y, n) ==
    IF n = 0 THEN 0
    ELSE (x % 2) * (y % 2) + 2 * And16(x \div 2, y \div 2, n - 1)

WAnd(a, b) == [i \in 1..4 |-> And16(a[i], b[i], 16)]
WOr(a, b) == [i \in 1..4 |-> a[i] + b[i] - And16(a[i], b[i], 16)]
WXor(a, b) == [i \in 1..4 |-> a[i] + b[i] - 2 * And16(a[i], b[i], 16)]

\* the uint32_t operations
Add32(a, b) == Trunc32(WAdd(a, b))
Sub32(a, b) == Trunc32(WSub(a, b))
Mul32(a, b) == Trunc32(WMul(a, b))
Not32(a) == <<65535 - a[1], 65535 - a[2], 0, 0>>

RECURSIVE Shr32(_, _)
Shr32(a, k) ==
    IF k = 0 THEN a
    ELSE Shr32(<<a[1] \div 2 + (a[2] % 2) * 32768, a[2] \div 2, 0, 0>>, k - 1)

RECURSIVE Shl32(_, _)
Shl32(a, k) ==
    IF k = 0 THEN a
    ELSE Shl32(<<(a[1] * 2) % Base, ((a[2] * 2) + (a[1] \div 32768)) % Base, 0, 0>>, k - 1)

\* the byte (x >> (8*i)) & 0xFF of a uint32_t, i in 0..3
Byte(a, i) ==
    CASE i = 0 -> a[1] % 256
      [] i = 1 -> a[1] \div 256
      [] i = 2 -> a[2] % 256
      [] i = 3 -> a[2] \div 256

\* bitwise operations on bytes (uint8_t)
Or8(x, y) == x + y - And16(x, y, 8)

(***************************************************************************)
(* Command encoders                                                        *)
(***************************************************************************)
\* what an encoder yields when its assert fails
AssertFailed == [data |-> <<>>, len |-> 0]

cmd_reset == [data |-> <<0, 0, 0, 0, 0>>, len |-> 1]
cmd_run == [data |-> <<1, 0, 0, 0, 0>>, len |-> 1]
cmd_id == [data |-> <<2, 0, 0, 0, 0>>, len |-> 1]
cmd_get_meta == [data |-> <<4, 0, 0, 0, 0>>, len |-> 1]

cmd_divider(div) ==
    IF Shr32(div, 24) # WZero THEN AssertFailed
    ELSE [data |-> <<128, Byte(div, 0), Byte(div, 1), Byte(div, 2), 0>>, len |-> 5]

\* read_count and delay_count are uint16_t: the arguments are converted on the call
U16(a) == a[1]

cmd_counts(read_count, delay_count) ==
    [data |-> <<129, read_count % 256, (read_count \div 256) % 256,
                delay_count % 256, (delay_count \div 256) % 256>>,
     len |-> 5]

B(flag, bit) == IF flag THEN bit ELSE 0

cmd_flags(group_disable, demux, filter, external, inverted, rle) ==
    IF Shr32(group_disable, 4) # WZero THEN AssertFailed
    ELSE [data |-> <<130,
                     Or8(Or8(Or8(Or8((N(group_disable) * 4) % 256, B(demux, 1)),
                                 B(filter, 2)), B(external, 64)), B(inverted, 128)),
                     B(rle, 1), 0, 0>>,
          len |-> 5]

cmd_trig_mask(stage, mask) ==
    IF stage > 3 THEN AssertFailed
    ELSE [data |-> <<Or8(192, (stage * 4) % 256),
                     Byte(mask, 0), Byte(mask, 1), Byte(mask, 2), Byte(mask, 3)>>,
          len |-> 5]

cmd_trig_value(stage, vals) ==
    IF stage > 3 THEN AssertFailed
    ELSE [data |-> <<Or8(193, (stage * 4) % 256),
                     Byte(vals, 0), Byte(vals, 1), Byte(vals, 2), Byte(vals, 3)>>,
          len |-> 5]

\* a trigger config that leaves the high bit of the channel out of byte 4
cmd_trig_cfg_low(stage, delay, level, channel, serial, start) ==
    IF stage > 3 \/ level > 3 \/ channel > 31 THEN AssertFailed
    ELSE [data |-> <<Or8(194, (stage * 4) % 256),
                     delay % 256, (delay \div 256) % 256,
                     Or8(((channel % 16) * 16) % 256, level),
                     Or8(B(serial, 4), B(start, 8))>>,
          len |-> 5]

cmd_trig_cfg(stage, delay, level, channel, serial, start) ==
    IF stage > 3 \/ level > 3 \/ channel > 31 THEN AssertFailed
    ELSE [data |-> <<Or8(194, (stage * 4) % 256),
                     delay % 256, (delay \div 256) % 256,
                     Or8(((channel % 16) * 16) % 256, level),
                     Or8(Or8(channel \div 16, B(serial, 4)), B(start, 8))>>,
          len |-> 5]

\* the arguments of one encoder call
Call(fn, w, stage, delay, level, channel, flags) ==
    [fn |-> fn, w |-> w, stage |-> stage, delay |-> delay, level |-> level,
     channel |-> channel, flags |-> flags]

NoFlags == <<FALSE, FALSE, FALSE, FALSE, FALSE>>

(***************************************************************************)
(* The command line                                                        *)
(***************************************************************************)
\* One option of the command line as the argument parsers read it: a and b
\* are the numbers of "<a>" or "<a>=<b>", sfx the SI suffix of a, name and
\* masks the two sides of a "vcd name=mask,mask.." value.
Option(opt, a, b, sfx, name, masks) ==
    [opt |-> opt, a |-> a, b |-> b, sfx |-> sfx, name |-> name, masks |-> masks]

Num(opt, a) == Option(opt, a, WZero, "", "", <<>>)
Flag(opt) == Option(opt, WZero, WZero, "", "", <<>>)

\* struct cfg as main initialises it
cfg_init ==
    [group_enable |-> WZero,
     trigger_mask |-> WZero, trigger_value |-> WZero,
     clk_divisor |-> W(1),
     samples |-> WZero,
     before_trig |-> W(4),
     rle |-> FALSE, raw |-> FALSE,
     ext_meta |-> FALSE,
     clk_freq_hz |-> W32(1525, 57600),
     sample_memory |-> W32(1, 0),
     num_probes |-> W(32),
     vcd |-> <<>>,
     max_groups |-> WZero, group_mask |-> WZero,
     num_groups_enabled |-> 0]

MAX_VCD_VALUES == 32
MAX_VCD_VALUE_BITS == 32

\* args_si_unit: the number with its K or M suffix applied; a result above
\* UINT32_MAX is an argument error
args_si_unit(a, sfx) ==
    CASE sfx = "M" -> WMulSmall(WMulSmall(a, 1000), 1000)
      [] sfx = "K" -> WMulSmall(a, 1000)
      [] OTHER -> a

\* the bits of n from bit 31 down to bit 0, each as its own mask
RECURSIVE BitsOf(_, _)
BitsOf(n, bit) ==
    IF bit < 0 THEN <<>>
    ELSE (IF WBit(n, bit) = 1 THEN <<Shl32(W(1), bit)>> ELSE <<>>)
         \o BitsOf(n, bit - 1)

\* args_vcd_value over the masks of one value: [mask, num_bits, bitmasks]
RECURSIVE vcd_masks(_, _)
vcd_masks(masks, vv) ==
    IF masks = <<>> THEN vv
    ELSE LET n == Head(masks)
             bits == BitsOf(n, 31)
         IN  vcd_masks(Tail(masks),
                       [vv EXCEPT !.mask = WOr(vv.mask, n),
                                  !.num_bits = vv.num_bits + Len(bits),
                                  !.bitmasks = vv.bitmasks \o bits])

args_vcd_value(o) ==
    vcd_masks(o.masks, [name |-> o.name, mask |-> WZero, num_bits |-> 0, bitmasks |-> <<>>])

\* whether the option is one argerr rejects
ArgError(o, c) ==
    \/ o.opt \notin {"groups", "trigger", "divisor", "samples", "before", "after",
                     "rle", "raw", "clk_freq", "sample_memory", "num_probes",
                     "extmeta", "vcd"}
    \/ o.opt \in {"clk_freq", "sample_memory"} /\ WLt(UINT32_MAX, args_si_unit(o.a, o.sfx))
    \/ o.opt = "vcd" /\ (\/ Len(c.vcd) = MAX_VCD_VALUES
                         \/ o.name = ""
                         \/ o.masks = <<>>
                         \/ args_vcd_value(o).num_bits > MAX_VCD_VALUE_BITS)

\* the branch of main's option loop for option o
apply_option(o, c) ==
    CASE o.opt = "groups" -> [c EXCEPT !.group_enable = o.a]
      [] o.opt = "trigger" -> [c EXCEPT !.trigger_mask = o.a, !.trigger_value = o.b]
      [] o.opt = "divisor" -> [c EXCEPT !.clk_divisor = o.a]
      [] o.opt = "samples" -> [c EXCEPT !.samples = o.a]
      [] o.opt = "before" -> [c EXCEPT !.before_trig = o.a]
      [] o.opt = "rle" -> [c EXCEPT !.rle = TRUE]
      [] o.opt = "raw" -> [c EXCEPT !.raw = TRUE]
      [] o.opt = "clk_freq" -> [c EXCEPT !.clk_freq_hz = args_si_unit(o.a, o.sfx)]
      [] o.opt = "sample_memory" -> [c EXCEPT !.sample_memory = args_si_unit(o.a, o.sfx)]
      [] o.opt = "num_probes" -> [c EXCEPT !.num_probes = o.a]
      [] o.opt = "extmeta" -> [c EXCEPT !.ext_meta = FALSE]
      [] o.opt = "vcd" -> [c EXCEPT !.vcd = Append(c.vcd, args_vcd_value(o))]
      [] OTHER -> c

(***************************************************************************)
(* The transport                                                           *)
(***************************************************************************)
\* the program has ended with status st
Exit(st) == status' = st /\ pc' = "exit"

\* the counts write() may return short of len
ShortWrites(len) == 0 .. (len - 1)

\* write_tty: the frame reaches the wire and the program goes on at okpc, or
\* write() returns -1 or a short count and the program exits
write_tty(c, okpc) ==
    \/ /\ wire' = wire \o SubSeq(c.data, 1, c.len)
       /\ status' = status
       /\ pc' = okpc
    \/ \E sz \in ShortWrites(c.len) :
          /\ wire' = wire \o SubSeq(c.data, 1, sz)
          /\ Exit("failure")
    \/ /\ wire' = wire
       /\ Exit("failure")

\* the encoder's assert aborted the program, or the frame is written
emit(c, okpc) ==
    IF c = AssertFailed
    THEN wire' = wire /\ Exit("abort")
    ELSE write_tty(c, okpc)

\* a read_tty call of n bytes about to start
\* (zeros: the parity of the read() calls so far that returned 0)
read_start(n) == [bytes |-> n, pos |-> WZero, data |-> <<>>, zeros |-> 0]

read_idle == read_start(WZero)

\* read() returns -1
read_error ==
    /\ ~eof
    /\ Exit("failure")
    /\ UNCHANGED <<args, rd, eof>>

\* read() returns 0
read_zero ==
    /\ eof' = TRUE
    /\ rd' = [rd EXCEPT !.zeros = 1 - rd.zeros]
    /\ UNCHANGED <<args, status, pc>>

\* one read() call of a read_tty that the device sends nothing more for
read_fails == WLt(rd.pos, rd.bytes) /\ (read_error \/ read_zero)

\* one read() call of read_tty's loop; replies are the byte sequences the
\* device may answer with, {} for a read too large to be kept byte by byte
read_call(replies) ==
    /\ WLt(rd.pos, rd.bytes)
    /\ \/ read_error
       \/ read_zero
       \/ /\ ~eof
          /\ replies # {}
          /\ \E r \in replies, k \in 1 .. (N(rd.bytes) - N(rd.pos)) :
                /\ SubSeq(r, 1, N(rd.pos)) = rd.data
                /\ rd' = [rd EXCEPT !.pos = WAdd(rd.pos, W(k)),
                                    !.data = SubSeq(r, 1, N(rd.pos) + k)]
          /\ UNCHANGED <<eof, status, pc>>
       \/ /\ ~eof
          /\ replies = {}
          /\ rd' = [rd EXCEPT !.pos = rd.bytes]
          /\ UNCHANGED <<eof, status, pc>>

read_done == rd.pos = rd.bytes

(***************************************************************************)
(* main: the option loop, open, setup_serial                               *)
(***************************************************************************)
ParseOption ==
    /\ pc = "parse"
    /\ argv # <<>>
    /\ LET o == Head(argv) IN
         IF ArgError(o, cfg)
         THEN /\ Exit("failure")
              /\ UNCHANGED <<cfg, after_trig, argv>>
         ELSE /\ cfg' = apply_option(o, cfg)
              /\ after_trig' = IF o.opt = "after" THEN o.a ELSE after_trig
              /\ argv' = Tail(argv)
              /\ UNCHANGED <<pc, status>>
    /\ UNCHANGED <<args, ctr, wire, eof, rd, ident, cmd, call, cap, buf, fmt, meta, out>>

\* open() and setup_serial(): either fails and the program exits
OpenTty ==
    /\ pc = "parse"
    /\ argv = <<>>
    /\ \/ Exit("failure") /\ UNCHANGED ctr
       \/ pc' = "ident_reset" /\ ctr' = 0 /\ UNCHANGED status
    /\ UNCHANGED <<args, argv, cfg, after_trig, wire, eof, rd, ident, cmd, call, cap, buf, fmt, meta, out>>

(***************************************************************************)
(* read_ident                                                              *)
(***************************************************************************)
\* "1ALS"
SumpIdent == <<49, 65, 76, 83>>

\* what a device may answer to identify
IdentReplies == {SumpIdent, <<49, 65, 76, 88>>, <<83, 76, 65, 49>>}

IdentReset ==
    /\ pc = "ident_reset"
    /\ ctr < 5
    /\ write_tty(cmd_reset, "ident_reset")
    /\ ctr' = ctr + 1
    /\ UNCHANGED <<args, argv, cfg, after_trig, eof, rd, ident, cmd, call, cap, buf, fmt, meta, out>>

IdentId ==
    /\ pc = "ident_reset"
    /\ ctr = 5
    /\ write_tty(cmd_id, "ident_read")
    /\ rd' = read_start(W(4))
    /\ UNCHANGED <<args, ctr, argv, cfg, after_trig, eof, ident, cmd, call, cap, buf, fmt, meta, out>>

IdentRead ==
    /\ pc = "ident_read"
    /\ read_call(IdentReplies)
    /\ UNCHANGED <<args, ctr, argv, cfg, after_trig, wire, ident, cmd, call, cap, buf, fmt, meta, out>>

\* a memcmp that stops one byte early
ident_ok_3(id) == SubSeq(id, 1, 3) = SubSeq(SumpIdent, 1, 3)

\* memcmp(ident, "1ALS", 4) == 0
ident_ok(id) == id = SumpIdent

\* the memcmp with "1ALS" and the return when ext_meta is unset
IdentCheck ==
    /\ pc = "ident_read"
    /\ read_done
    /\ ident' = rd.data
    /\ IF ~ident_ok(rd.data) THEN Exit("failure")
       ELSE /\ pc' = IF cfg.ext_meta THEN "meta_get" ELSE "derive"
            /\ UNCHANGED status
    /\ UNCHANGED <<args, ctr, argv, cfg, after_trig, wire, eof, rd, cmd, call, cap, buf, fmt, meta, out>>

(***************************************************************************)
(* read_ident: the extended metadata                                       *)
(***************************************************************************)
\* sizeof(val)
VAL_SIZE == 256

\* a string of n bytes 'a'
Str(n) == [k \in 1 .. n |-> 97]

\* the metadata streams a device may answer get_metadata with; a device sends
\* nothing after the last byte of its stream
MetaStreams ==
    << <<0>>,
       <<32, 0, 0, 0, 32, 0>>,
       <<32, 1, 2, 3, 4, 0>>,
       <<33, 0, 0, 0, 2, 0>>,
       <<35, 0, 0, 0, 0, 0>>,
       <<35, 0, 0, 128, 0, 0>>,
       <<34, 9, 9, 9, 9, 36, 1, 1, 1, 1, 0>>,
       <<64, 7, 65, 7, 0>>,
       <<1>> \o Str(2) \o <<0, 32, 0, 0, 0, 9, 0>>,
       <<0, 32, 0, 0, 0, 9, 0>>,
       <<96, 32, 0, 0, 0, 9, 0>>,
       <<32, 0, 0, 0, 9, 224, 33, 0, 0, 0, 2, 0>>,
       <<255>>,
       <<1>> \o Str(VAL_SIZE - 2) \o <<0, 33, 0, 0, 0, 2, 0>>,
       <<1>> \o Str(VAL_SIZE - 1) \o <<0, 33, 0, 0, 0, 2, 0>>,
       <<1>> \o Str(VAL_SIZE) \o <<0, 33, 0, 0, 0, 2, 0>>,
       <<1>> \o Str(VAL_SIZE + 44) \o <<0, 33, 0, 0, 0, 2, 0>>,
       <<1, 0, 0>>,
       <<64>>,
       <<128, 0>> >>

\* dev: which stream the device sends; pos: how many of its bytes the loop
\* has taken; tag: the tag byte meta; i: the index into val; vmax: the highest index of val written;
\* how: the way the metadata loop was left
meta_init == [dev |-> 1, pos |-> 0, tag |-> 0, i |-> 0, vmax |-> 0 - 1, how |-> ""]

MetaStream == MetaStreams[meta.dev]

MetaPcs == {"meta_tag", "meta_str", "meta_drain", "meta_u32", "meta_u8"}

\* write_tty(fd, &cmd_get_meta) and the first read_tty(fd, &meta, 1)
MetaGet ==
    /\ pc = "meta_get"
    /\ cmd' = cmd_get_meta
    /\ write_tty(cmd_get_meta, "meta_tag")
    /\ rd' = read_start(W(1))
    /\ UNCHANGED <<args, ctr, argv, cfg, after_trig, eof, ident, call, cap, buf, fmt, meta, out>>

\* one read() call of a read_tty of the metadata loop
MetaRead ==
    /\ pc \in MetaPcs
    /\ LET n == N(rd.bytes) IN
       IF meta.pos + n <= Len(MetaStream)
       THEN read_call({SubSeq(MetaStream, meta.pos + 1, meta.pos + n)})
       ELSE read_fails
    /\ UNCHANGED <<args, ctr, argv, cfg, after_trig, wire, ident, cmd, call, cap, buf, fmt, meta, out>>

\* a switch whose default case reads one payload byte
tag_pc_skip(tag) ==
    CASE tag = 0 -> "derive"
      [] tag # 0 /\ tag \div 32 = 0 -> "meta_str"
      [] tag \div 32 = 1 -> "meta_u32"
      [] OTHER -> "meta_u8"

\* where the tag byte sends the loop: the break, a case of the switch, or
\* the return of its default case
tag_pc(tag) ==
    CASE tag = 0 -> "derive"
      [] tag # 0 /\ tag \div 32 = 0 -> "meta_str"
      [] tag \div 32 = 1 -> "meta_u32"
      [] tag \div 32 = 2 -> "meta_u8"
      [] OTHER -> "derive"

\* switch(meta >> 5) on the tag byte just read
MetaTag ==
    /\ pc = "meta_tag"
    /\ read_done
    /\ LET tag == rd.data[1]
           kind == tag \div 32
       IN
       /\ pc' = tag_pc(tag)
       /\ rd' = IF tag # 0 /\ kind = 1 THEN read_start(W(4))
                ELSE IF tag # 0 /\ kind \in {0, 2} THEN read_start(W(1))
                ELSE read_idle
       /\ meta' = [meta EXCEPT !.pos = meta.pos + 1,
                               !.tag = tag,
                               !.i = 0,
                               !.how = IF tag = 0 THEN "end"
                                       ELSE IF kind > 2 THEN "unexpected" ELSE ""]
    /\ UNCHANGED <<args, ctr, status, argv, cfg, after_trig, wire, eof, ident, cmd, call, cap, buf, fmt, out>>

\* a do loop that stops one byte late
str_more_late(b, i) == b # 0 /\ i # VAL_SIZE + 1

\* the do loop's condition: one more byte of the string is read into val
str_more(b, i) == b # 0 /\ i # VAL_SIZE

\* read_tty(fd, &val[i], 1) has returned
MetaString ==
    /\ pc = "meta_str"
    /\ read_done
    /\ LET b == rd.data[1]
           i == meta.i + 1
       IN
       /\ pc' = IF str_more(b, i) THEN "meta_str"
                ELSE IF b # 0 THEN "meta_drain" ELSE "meta_tag"
       /\ meta' = [meta EXCEPT !.pos = meta.pos + 1,
                               !.i = i,
                               !.vmax = IF meta.i > meta.vmax THEN meta.i ELSE meta.vmax]
    /\ rd' = read_start(W(1))
    /\ UNCHANGED <<args, ctr, status, argv, cfg, after_trig, wire, eof, ident, cmd, call, cap, buf, fmt, out>>

\* read_tty(fd, &val[sizeof(val) - 1], 1) has returned
MetaDrain ==
    /\ pc = "meta_drain"
    /\ read_done
    /\ pc' = IF rd.data[1] # 0 THEN "meta_drain" ELSE "meta_tag"
    /\ meta' = [meta EXCEPT !.pos = meta.pos + 1,
                            !.vmax = IF VAL_SIZE - 1 > meta.vmax
                                     THEN VAL_SIZE - 1 ELSE meta.vmax]
    /\ rd' = read_start(W(1))
    /\ UNCHANGED <<args, ctr, status, argv, cfg, after_trig, wire, eof, ident, cmd, call, cap, buf, fmt, out>>

\* (uint32_t)valb[3] | (valb[2] << 8) | (valb[1] << 16) | (valb[2] << 24);
\* for valb[2] >= 0x80 the shift into the sign bit yields the wrapped value
\* on every two's complement build (the C array valb[0..3] is valb[1..4] here)
meta_u32(valb) == W32(valb[3] * 256 + valb[2], valb[3] * 256 + valb[4])

\* switch(meta & 0x1f): the field a u32 entry fills in
meta_store(c, id, val) ==
    CASE id = 0 -> [c EXCEPT !.num_probes = val]
      [] id = 1 -> [c EXCEPT !.sample_memory = val]
      [] id = 3 -> [c EXCEPT !.clk_freq_hz = val]
      [] OTHER -> c

\* read_tty(fd, valb, 4) has returned
MetaU32 ==
    /\ pc = "meta_u32"
    /\ read_done
    /\ cfg' = meta_store(cfg, meta.tag % 32, meta_u32(rd.data))
    /\ meta' = [meta EXCEPT !.pos = meta.pos + 4]
    /\ pc' = "meta_tag"
    /\ rd' = read_start(W(1))
    /\ UNCHANGED <<args, ctr, status, argv, after_trig, wire, eof, ident, cmd, call, cap, buf, fmt, out>>

\* read_tty(fd, &val, 1) of a u8 entry has returned
MetaU8 ==
    /\ pc = "meta_u8"
    /\ read_done
    /\ meta' = [meta EXCEPT !.pos = meta.pos + 1]
    /\ pc' = "meta_tag"
    /\ rd' = read_start(W(1))
    /\ UNCHANGED <<args, ctr, status, argv, cfg, after_trig, wire, eof, ident, cmd, call, cap, buf, fmt, out>>

(***************************************************************************)
(* main: the derived configuration                                         *)
(***************************************************************************)
\* the outcome of an undefined operation that ends the process
Trap == <<>>

\* a / b on uint32_t; the division by 0 traps or, where the machine's divide
\* does not trap, yields 0
UDiv(a, b) == IF b = WZero THEN {Trap, WZero} ELSE {WDiv(a, b)}

\* 1u << n; a shift by 32 or more takes the count modulo 32 or yields 0
Shl1u(n) ==
    IF WLt(n, W(32)) THEN {Shl32(W(1), N(n))}
    ELSE {Shl32(W(1), WModSmall(n, 32)), WZero}

\* for(n = x; n; n >>= 1) count += 1
RECURSIVE count_groups(_)
count_groups(n) == IF n = WZero THEN 0 ELSE 1 + count_groups(Shr32(n, 1))

\* the number of set bits
RECURSIVE PopCount(_)
PopCount(n) == IF n = WZero THEN 0 ELSE (n[1] % 2) + PopCount(Shr32(n, 1))

max_groups_of(num_probes) == WDivSmall(Add32(num_probes, W(7)), 8)

before_of(samples, after) ==
    Sub32(samples, IF WLt(samples, after) THEN samples ELSE after)

\* a main that goes on to capture whatever the clock frequency
freq_unchecked(c) == TRUE

\* main's check of the clock frequency
freq_ok(c) == c.clk_freq_hz # WZero

Derive ==
    /\ pc = "derive"
    /\ LET mg == max_groups_of(cfg.num_probes) IN
       \E sh \in Shl1u(mg) :
         LET gm == Sub32(sh, W(1))
             ge == IF cfg.group_enable = WZero THEN gm ELSE cfg.group_enable
             nge == count_groups(WAnd(ge, gm))
         IN
         \E q \in (IF cfg.samples = WZero THEN UDiv(cfg.sample_memory, W(nge))
                   ELSE {cfg.samples}) :
           IF q = Trap
           THEN /\ Exit("fault")
                /\ cfg' = [cfg EXCEPT
                             !.max_groups = mg,
                             !.group_mask = gm,
                             !.group_enable = ge,
                             !.num_groups_enabled = nge]
           ELSE /\ cfg' = [cfg EXCEPT
                             !.max_groups = mg,
                             !.group_mask = gm,
                             !.group_enable = ge,
                             !.num_groups_enabled = nge,
                             !.samples = q,
                             !.before_trig =
                                 IF after_trig # UINT32_MAX
                                 THEN before_of(q, after_trig)
                                 ELSE cfg.before_trig]
                /\ IF ~freq_ok(cfg) THEN Exit("failure")
                   ELSE pc' = "cap_reset" /\ UNCHANGED status
    /\ ctr' = 0
    /\ UNCHANGED <<args, argv, after_trig, wire, eof, rd, ident, cmd, call, cap, buf, fmt, meta, out>>

(***************************************************************************)
(* capture: the command sequence                                           *)
(***************************************************************************)
cap_init ==
    [stage |-> 0, part |-> 0, max_samples |-> WZero, capture_samples |-> WZero,
     before_samples |-> WZero]

\* a capture that configures the four stages whatever the trigger
trig_stages_all(c) == 4

\* how many trigger stages capture configures
trig_stages(c) == IF c.trigger_mask = WZero THEN 1 ELSE 4

\* the frame capture builds for part (0 mask, 1 value, 2 config) of a stage
trig_frame(c, stage, part) ==
    IF c.trigger_mask = WZero
    THEN CASE part = 0 -> cmd_trig_mask(0, WZero)
           [] part = 1 -> cmd_trig_value(0, WZero)
           [] OTHER -> cmd_trig_cfg(0, 0, 0, 0, FALSE, TRUE)
    ELSE IF stage = 0
    THEN CASE part = 0 -> cmd_trig_mask(0, c.trigger_mask)
           [] part = 1 -> cmd_trig_value(0, c.trigger_value)
           [] OTHER -> cmd_trig_cfg(0, 0, 0, 0, FALSE, TRUE)
    ELSE CASE part = 0 -> cmd_trig_mask(stage, WZero)
           [] part = 1 -> cmd_trig_value(stage, WZero)
           [] OTHER -> cmd_trig_cfg(stage, 0, 3, 0, FALSE, FALSE)

group_dis_of(c) == WAnd(Not32(c.group_enable), c.group_mask)

WMin(a, b) == IF WLt(b, a) THEN b ELSE a

CapReset ==
    /\ pc = "cap_reset"
    /\ ctr < 5
    /\ write_tty(cmd_reset, "cap_reset")
    /\ ctr' = ctr + 1
    /\ UNCHANGED <<args, argv, cfg, after_trig, eof, rd, ident, cmd, call, cap, buf, fmt, meta, out>>

CapDivider ==
    /\ pc = "cap_reset"
    /\ ctr = 5
    /\ cmd' = cmd_divider(Sub32(cfg.clk_divisor, W(1)))
    /\ emit(cmd', "cap_trig")
    /\ cap' = cap_init
    /\ UNCHANGED <<args, ctr, argv, cfg, after_trig, eof, rd, ident, call, buf, fmt, meta, out>>

CapTrigger ==
    /\ pc = "cap_trig"
    /\ cmd' = trig_frame(cfg, cap.stage, cap.part)
    /\ LET last == cap.part = 2 /\ cap.stage + 1 >= trig_stages(cfg) IN
       /\ emit(cmd', IF last THEN "cap_counts" ELSE "cap_trig")
       /\ cap' = IF cap.part < 2 THEN [cap EXCEPT !.part = cap.part + 1]
                 ELSE [cap EXCEPT !.part = 0, !.stage = cap.stage + 1]
    /\ UNCHANGED <<args, ctr, argv, cfg, after_trig, eof, rd, ident, call, buf, fmt, meta, out>>

CapCounts ==
    /\ pc = "cap_counts"
    /\ \E ms \in UDiv(cfg.sample_memory, W(cfg.num_groups_enabled)) :
         IF ms = Trap
         THEN /\ Exit("fault")
              /\ UNCHANGED <<wire, cmd, cap>>
         ELSE LET cs == WMin(cfg.samples, ms)
                  bs == WMin(cfg.before_trig, cs)
              IN  /\ cap' = [cap EXCEPT !.max_samples = ms,
                                        !.capture_samples = cs,
                                        !.before_samples = bs]
                  /\ cmd' = cmd_counts(U16(WDivSmall(cs, 4)),
                                       U16(WDivSmall(Sub32(cs, bs), 4)))
                  /\ emit(cmd', "cap_flags")
    /\ UNCHANGED <<args, ctr, argv, cfg, after_trig, eof, rd, ident, call, buf, fmt, meta, out>>

CapFlags ==
    /\ pc = "cap_flags"
    /\ cmd' = cmd_flags(group_dis_of(cfg), FALSE, FALSE, FALSE, FALSE, cfg.rle)
    /\ emit(cmd', "cap_run")
    /\ UNCHANGED <<args, ctr, argv, cfg, after_trig, eof, rd, ident, call, cap, buf, fmt, meta, out>>

CapRun ==
    /\ pc = "cap_run"
    /\ write_tty(cmd_run, "cap_malloc")
    /\ UNCHANGED <<args, ctr, argv, cfg, after_trig, eof, rd, ident, cmd, call, cap, buf, fmt, meta, out>>

\* the size of the sample buffer
buf_size(c, k) == Mul32(k.capture_samples, W(c.num_groups_enabled))

\* malloc and assert(buf): malloc(0) may return NULL
CapMalloc ==
    /\ pc = "cap_malloc"
    /\ \/ /\ buf_size(cfg, cap) = WZero
          /\ Exit("abort")
          /\ UNCHANGED rd
       \/ /\ pc' = "cap_read"
          /\ rd' = read_start(buf_size(cfg, cap))
          /\ UNCHANGED status
    /\ UNCHANGED <<args, ctr, argv, cfg, after_trig, wire, eof, ident, cmd, call, cap, buf, fmt, meta, out>>

(***************************************************************************)
(* capture: the sample read and the raw and hex output                     *)
(***************************************************************************)
\* the largest sample buffer the model keeps byte by byte; the rendering of
\* a larger capture is not explored
MaxBuf == 4

\* the sample bytes a device may send
SampleBytes == {1, 3, 4}

\* what a read outside the buffer may yield
GarbageBytes == {0, 255}

Tracked(n) == IsSmall(n) /\ N(n) <= MaxBuf

SampleReplies(n) == IF Tracked(n) THEN [1 .. N(n) -> SampleBytes] ELSE {}

fmt_init ==
    [ptr |-> 0, prev |-> WZero, ntens |-> 0, unit |-> 0, unit_scale |-> 0,
     pnum |-> WZero, curs |-> <<>>]

SampleRead ==
    /\ pc = "cap_read"
    /\ read_call(SampleReplies(rd.bytes))
    /\ UNCHANGED <<args, ctr, argv, cfg, after_trig, wire, ident, cmd, call, cap, buf, fmt, meta, out>>

\* read_tty has returned: capture goes on to write_vcd or to its own loop,
\* ptr = &buf[(capture_samples * num_groups_enabled) - 1]
SampleReadDone ==
    /\ pc = "cap_read"
    /\ read_done
    /\ buf' = rd.data
    /\ pc' = IF cfg.vcd # <<>> THEN "vcd_header" ELSE "dump"
    /\ ctr' = 0
    /\ fmt' = [fmt_init EXCEPT !.ptr = IF Tracked(rd.bytes) THEN N(rd.bytes) - 1 ELSE 0]
    /\ UNCHANGED <<args, status, argv, cfg, after_trig, wire, eof, rd, ident, cmd, call, cap, meta, out>>

\* the values *(buf + k) may have
BufAt(k) == IF 0 <= k /\ k < Len(buf) THEN {buf[k + 1]} ELSE GarbageBytes

\* the values the n bytes from buf + k on may have
RECURSIVE ReadRun(_, _)
ReadRun(k, n) ==
    IF n = 0 THEN {<<>>}
    ELSE {<<b>> \o t : b \in BufAt(k), t \in ReadRun(k + 1, n - 1)}

HexDigits == <<"0", "1", "2", "3", "4", "5", "6", "7",
               "8", "9", "A", "B", "C", "D", "E", "F">>

\* printf("%02X", b)
hex2(b) == <<HexDigits[(b \div 16) + 1], HexDigits[(b % 16) + 1]>>

RECURSIVE hex_line(_)
hex_line(bytes) ==
    IF bytes = <<>> THEN <<>> ELSE hex2(Head(bytes)) \o hex_line(Tail(bytes))

\* how far one iteration of capture's loop moves ptr back
dump_step(raw, nge) == IF raw THEN 2 * nge ELSE nge

\* the index of the first byte the iteration at ptr takes
dump_from(ptr, nge) == ptr - nge

\* one iteration of capture's output loop
DumpSample ==
    /\ pc = "dump"
    /\ Tracked(rd.bytes)
    /\ ctr < N(cap.capture_samples)
    /\ LET nge == cfg.num_groups_enabled IN
       /\ \E bytes \in ReadRun(dump_from(fmt.ptr, nge), nge) :
             out' = Append(out, IF cfg.raw THEN bytes ELSE hex_line(bytes) \o <<"\n">>)
       /\ fmt' = [fmt EXCEPT !.ptr = fmt.ptr - dump_step(cfg.raw, nge)]
    /\ ctr' = ctr + 1
    /\ UNCHANGED <<args, pc, status, argv, cfg, after_trig, wire, eof, rd, ident, cmd, call, cap, meta, buf>>

\* free(buf), close(fd) and the end of main
DumpDone ==
    /\ pc = "dump"
    /\ Tracked(rd.bytes)
    /\ ctr = N(cap.capture_samples)
    /\ Exit("ok")
    /\ UNCHANGED <<args, ctr, argv, cfg, after_trig, wire, eof, rd, ident, cmd, call, cap, buf, fmt, meta, out>>

(***************************************************************************)
(* write_vcd                                                               *)
(***************************************************************************)
\* one line of the VCD output: its kind, the sample index it was written at
\* (-1 in the header), and the numbers and text printed in it
Line(kind, at, n, id, bits, text) ==
    [kind |-> kind, at |-> at, n |-> n, id |-> id, bits |-> bits, text |-> text]

units == <<"s", "ms", "us", "ns", "ps", "fs">>
tens == <<1, 10, 100>>

\* the while loop on time_scale: the x10 steps taken and divisor * time_scale.
\* Every value of the loop is an integer below 2^53, so the doubles are exact
\* and (divisor * time_scale) / freq < 100.0 is decided as written here. With
\* divisor 0 the loop ends only when time_scale has overflowed to infinity,
\* after 309 steps.
RECURSIVE scale_loop(_, _, _, _)
scale_loop(divisor, freq, time_scale, ntens) ==
    IF divisor = WZero THEN [ntens |-> 309, pnum |-> WZero]
    ELSE IF WLt(WMul(time_scale, divisor), WMulSmall(freq, 100))
    THEN scale_loop(divisor, freq, WMulSmall(time_scale, 10), ntens + 1)
    ELSE [ntens |-> ntens, pnum |-> WMul(time_scale, divisor)]

unit_of(ntens) == ntens \div 3
\* a multiplier taken from the other end of tens
unit_scale_rev(ntens) == tens[3 - (ntens % 3)]

unit_scale_of(ntens) == tens[(ntens % 3) + 1]

\* (unsigned int)((double)i * period), period = pnum / freq
current_time(at, pnum, freq) == Trunc32(WDiv(WMulSmall(pnum, at), freq))

\* a write_vcd_value that prints the bits of a vector last first
write_vcd_value_rev(vv, vali, sample, at) ==
    IF vv.num_bits = 1
    THEN Line("scalar", at, 0, 33 + vali,
              <<IF WAnd(sample, vv.mask) # WZero THEN 1 ELSE 0>>, "")
    ELSE Line("vector", at, 0, 33 + vali,
              [b \in 1 .. vv.num_bits |->
                  IF WAnd(sample, vv.bitmasks[vv.num_bits + 1 - b]) # WZero
                  THEN 1 ELSE 0], "")

\* write_vcd_value
write_vcd_value(vv, vali, sample, at) ==
    IF vv.num_bits = 1
    THEN Line("scalar", at, 0, 33 + vali,
              <<IF WAnd(sample, vv.mask) # WZero THEN 1 ELSE 0>>, "")
    ELSE Line("vector", at, 0, 33 + vali,
              [b \in 1 .. vv.num_bits |->
                  IF WAnd(sample, vv.bitmasks[b]) # WZero THEN 1 ELSE 0], "")

\* a write_vcd that writes a value only when it changed
vcd_emits_changed(vv, at, num_samples, changed) == WAnd(changed, vv.mask) # WZero

\* whether write_vcd writes value vv at sample index at
vcd_emits(vv, at, num_samples, changed) ==
    at = num_samples - 1 \/ WAnd(changed, vv.mask) # WZero

\* the loop over the values for one sample: the lines it prints
RECURSIVE vcd_values(_, _, _, _, _, _, _)
vcd_values(c, vali, at, num_samples, cur, changed, written_time) ==
    IF vali >= Len(c.vcd) THEN <<>>
    ELSE LET vv == c.vcd[vali + 1] IN
         IF vcd_emits(vv, at, num_samples, changed)
         THEN (IF written_time THEN <<>>
               ELSE <<Line("#", at, N(current_time(at, fmt.pnum, c.clk_freq_hz)),
                           0, <<>>, "")>>)
              \o <<write_vcd_value(vv, vali, cur, at)>>
              \o vcd_values(c, vali + 1, at, num_samples, cur, changed, TRUE)
         ELSE vcd_values(c, vali + 1, at, num_samples, cur, changed, written_time)

\* cur <<= 8; cur |= byte, over the bytes of one sample
RECURSIVE assemble(_, _)
assemble(cur, bytes) ==
    IF bytes = <<>> THEN cur
    ELSE assemble(WOr(Shl32(cur, 8), W(Head(bytes))), Tail(bytes))

\* the time scale, the assert and the header
VcdHeader ==
    /\ pc = "vcd_header"
    /\ Tracked(rd.bytes)
    /\ LET sc == scale_loop(cfg.clk_divisor, cfg.clk_freq_hz, W(1), 0) IN
       IF unit_of(sc.ntens) >= 6
       THEN Exit("abort") /\ UNCHANGED <<fmt, out>>
       ELSE /\ fmt' = [fmt EXCEPT !.ntens = sc.ntens, !.pnum = sc.pnum,
                                  !.unit = unit_of(sc.ntens),
                                  !.unit_scale = unit_scale_of(sc.ntens)]
            /\ out' = <<Line("$date", -1, 0, 0, <<>>, ""),
                        Line("$version", -1, 0, 0, <<>>, "Sump dumper"),
                        Line("$timescale", -1, unit_scale_of(sc.ntens), 0, <<>>,
                             units[unit_of(sc.ntens) + 1])>>
                       \o [v \in 1 .. Len(cfg.vcd) |->
                             Line("$var", -1, cfg.vcd[v].num_bits, 33 + v - 1, <<>>,
                                  cfg.vcd[v].name)]
                       \o <<Line("$enddefinitions", -1, 0, 0, <<>>, ""),
                            Line("$dumpvars", -1, 0, 0, <<>>, "")>>
                       \o [v \in 1 .. Len(cfg.vcd) |->
                             write_vcd_value(cfg.vcd[v], v - 1, WZero, -1)]
                       \o <<Line("$end", -1, 0, 0, <<>>, "")>>
            /\ pc' = "vcd_sample"
            /\ UNCHANGED status
    /\ UNCHANGED <<args, ctr, argv, cfg, after_trig, wire, eof, rd, ident, cmd, call, cap, meta, buf>>

\* one iteration of write_vcd's loop over the samples
VcdSample ==
    /\ pc = "vcd_sample"
    /\ ctr < N(cap.capture_samples)
    /\ LET nge == cfg.num_groups_enabled IN
       \E bytes \in ReadRun(fmt.ptr - nge, nge) :
         LET cur == assemble(WZero, bytes)
             changed == WXor(fmt.prev, cur)
         IN  /\ out' = out \o vcd_values(cfg, 0, ctr, N(cap.capture_samples),
                                         cur, changed, FALSE)
             /\ fmt' = [fmt EXCEPT !.ptr = fmt.ptr - nge, !.prev = cur,
                                   !.curs = Append(fmt.curs, cur)]
    /\ ctr' = ctr + 1
    /\ UNCHANGED <<args, pc, status, argv, cfg, after_trig, wire, eof, rd, ident, cmd, call, cap, meta, buf>>

VcdDone ==
    /\ pc = "vcd_sample"
    /\ ctr = N(cap.capture_samples)
    /\ Exit("ok")
    /\ UNCHANGED <<args, ctr, argv, cfg, after_trig, wire, eof, rd, ident, cmd, call, cap, buf, fmt, meta, out>>

(***************************************************************************)
(* The command lines explored                                              *)
(***************************************************************************)
Opt1(S) == {<<>>} \cup {<<o>> : o \in S}
Cat(A, C) == {a \o c : a \in A, c \in C}

Trigger(m, v) == Option("trigger", m, v, "", "", <<>>)
Si(opt, a, sfx) == Option(opt, a, WZero, sfx, "", <<>>)
Vcd(name, masks) == Option("vcd", WZero, WZero, "", name, masks)

TriggerOpts == {Trigger(W(1), W(1)), Trigger(WZero, W(5)),
                Trigger(W32(32768, 256), W(256))}
DivisorOpts == {Num("divisor", WZero), Num("divisor", W(11)),
                Num("divisor", W32(256, 0)), Num("divisor", W32(256, 1))}
GroupOpts == {Num("groups", W(1)), Num("groups", W(3)), Num("groups", W(5)),
              Num("groups", W(8)), Num("groups", W(16)), Num("groups", W(19))}
ProbeOpts == {Num("num_probes", WZero), Num("num_probes", W(9)), Num("num_probes", W(40)),
              Num("num_probes", W(256)), Num("num_probes", UINT32_MAX)}
FreqOpts == {Si("clk_freq", WZero, ""), Si("clk_freq", W(1), ""), Si("clk_freq", W(3), ""),
             Si("clk_freq", W(1), "K"), Si("clk_freq", W(100), "M"),
             Si("clk_freq", UINT32_MAX, "")}
ScaleDivisorOpts == {Num("divisor", W(3)), Num("divisor", W(11)),
                     Num("divisor", W(1000)), Num("divisor", W32(256, 0))}
VcdOpts == {<<Vcd("a", <<W(2)>>)>>,
            <<Vcd("clock", <<W(1)>>), Vcd("data", <<W(6), W(128)>>)>>}
ModeOpts == {<<>>, <<Flag("raw")>>} \cup VcdOpts
SmallSamples == {Num("samples", W(n)) : n \in 1 .. MaxBuf}

CmdLines ==
    \* the capture sequence
    Cat(Opt1(TriggerOpts), Cat(Opt1(DivisorOpts), Opt1({Num("groups", W(5))})))
    \* the derived configuration
    \cup Cat(Opt1(GroupOpts), Cat(Opt1(ProbeOpts), Opt1({Num("samples", W(100))})))
    \* the output
    \cup Cat({<<o>> : o \in SmallSamples},
             Cat({<<Num("groups", W(1))>>, <<Num("groups", W(3))>>}, ModeOpts))
    \* the time scale
    \cup Cat({<<Num("samples", W(2)), Num("groups", W(1))>>},
             Cat({<<Vcd("a", <<W(2)>>)>>},
                 Cat(Opt1(ScaleDivisorOpts), Opt1(FreqOpts))))
    \* the remaining options and the argument errors
    \cup {<<Flag("rle")>>, <<Flag("extmeta")>>, <<Flag("bogus")>>,
          <<Si("sample_memory", W(5000), "M")>>, <<Si("sample_memory", W(2), "")>>,
          <<Si("clk_freq", WZero, ""), Flag("bogus")>>,
          <<Num("before", W(1)), Num("after", W(30)), Num("samples", W(100))>>,
          <<Num("samples", W(100)), Num("after", W(150))>>,
          <<Num("before", W(2)), Num("samples", W(100))>>,
          <<Num("after", UINT32_MAX), Num("samples", W(100))>>,
          <<Si("sample_memory", W(4), "M"), Num("samples", W32(6, 6784))>>}

(***************************************************************************)
(* The program                                                             *)
(***************************************************************************)
Init ==
    /\ pc = "parse"
    /\ ctr = 0
    /\ status = "running"
    /\ args \in CmdLines
    /\ argv = args
    /\ cfg = cfg_init
    /\ after_trig = UINT32_MAX
    /\ wire = <<>>
    /\ eof = FALSE
    /\ rd = read_idle
    /\ ident = <<>>
    /\ cmd = [data |-> <<0, 0, 0, 0, 0>>, len |-> 0]
    /\ call = Call("", WZero, 0, 0, 0, 0, NoFlags)
    /\ cap = cap_init
    /\ buf = <<>>
    /\ fmt = fmt_init
    /\ meta = meta_init
    /\ out = <<>>

Next ==
    \/ ParseOption
    \/ OpenTty
    \/ IdentReset
    \/ IdentId
    \/ IdentRead
    \/ IdentCheck
    \/ Derive
    \/ CapReset
    \/ CapDivider
    \/ CapTrigger
    \/ CapCounts
    \/ CapFlags
    \/ CapRun
    \/ CapMalloc
    \/ SampleRead
    \/ SampleReadDone
    \/ DumpSample
    \/ DumpDone
    \/ VcdHeader
    \/ VcdSample
    \/ VcdDone

Spec == Init /\ [][Next]_vars

\* the program is a single thread: a read_tty call in progress always takes
\* its next step, and so does the code after it
FairSpec ==
    /\ Spec
    /\ WF_vars(IdentRead) /\ WF_vars(IdentCheck)
    /\ WF_vars(SampleRead) /\ WF_vars(SampleReadDone)

(***************************************************************************)
(* read_ident called with cfg->ext_meta set, and main from there on: the   *)
(* device answers get_metadata with one of MetaStreams                     *)
(***************************************************************************)
InitMeta ==
    /\ pc = "ident_reset"
    /\ ctr = 0
    /\ status = "running"
    /\ args = <<>>
    /\ argv = <<>>
    /\ cfg = [cfg_init EXCEPT !.ext_meta = TRUE, !.samples = W(2), !.group_enable = W(1)]
    /\ after_trig = UINT32_MAX
    /\ wire = <<>>
    /\ eof = FALSE
    /\ rd = read_idle
    /\ ident = <<>>
    /\ cmd = [data |-> <<0, 0, 0, 0, 0>>, len |-> 0]
    /\ call = Call("", WZero, 0, 0, 0, 0, NoFlags)
    /\ cap = cap_init
    /\ buf = <<>>
    /\ fmt = fmt_init
    /\ meta \in {[meta_init EXCEPT !.dev = d] : d \in 1 .. Len(MetaStreams)}
    /\ out = <<>>

NextMeta ==
    \/ IdentReset
    \/ IdentId
    \/ IdentRead
    \/ IdentCheck
    \/ MetaGet
    \/ MetaRead
    \/ MetaTag
    \/ MetaString
    \/ MetaDrain
    \/ MetaU32
    \/ MetaU8
    \/ Derive
    \/ CapReset
    \/ CapDivider
    \/ CapTrigger
    \/ CapCounts
    \/ CapFlags
    \/ CapRun
    \/ CapMalloc
    \/ SampleRead
    \/ SampleReadDone
    \/ DumpSample
    \/ DumpDone

SpecMeta == InitMeta /\ [][NextMeta]_vars

(***************************************************************************)
(* The encoders on their own: each is applied once to arguments drawn from *)
(* the sets below                                                          *)
(***************************************************************************)
Words32 == {WZero, W(1), W(255), W(256), W32(4660, 22136), W32(255, 65280),
            W32(32768, 0), W32(256, 0), UINT32_MAX}
Words24 == {WZero, W(1), W(255), W(256), W32(18, 13398), W32(255, 65535),
            W32(256, 0), UINT32_MAX}
Words16 == {0, 1, 255, 256, 4660, 65280, 65535}

EncDivider ==
    /\ pc = "enc"
    /\ \E div \in Words24 :
         /\ cmd' = cmd_divider(div)
         /\ call' = Call("divider", div, 0, 0, 0, 0, NoFlags)
    /\ pc' = "encoded"
    /\ UNCHANGED <<args, ctr, status, argv, cfg, after_trig, wire, eof, rd, ident, cap, buf, fmt, meta, out>>

EncCounts ==
    /\ pc = "enc"
    /\ \E read_count \in Words16, delay_count \in Words16 :
         /\ cmd' = cmd_counts(read_count, delay_count)
         /\ call' = Call("counts", W(read_count), 0, delay_count, 0, 0, NoFlags)
    /\ pc' = "encoded"
    /\ UNCHANGED <<args, ctr, status, argv, cfg, after_trig, wire, eof, rd, ident, cap, buf, fmt, meta, out>>

EncFlags ==
    /\ pc = "enc"
    /\ \E gd \in 0 .. 16, f \in [1 .. 5 -> BOOLEAN] :
         /\ cmd' = cmd_flags(W(gd), f[1], f[2], f[3], f[4], f[5])
         /\ call' = Call("flags", W(gd), 0, 0, 0, 0, f)
    /\ pc' = "encoded"
    /\ UNCHANGED <<args, ctr, status, argv, cfg, after_trig, wire, eof, rd, ident, cap, buf, fmt, meta, out>>

EncTrigMask ==
    /\ pc = "enc"
    /\ \E stage \in 0 .. 4, mask \in Words32 :
         /\ cmd' = cmd_trig_mask(stage, mask)
         /\ call' = Call("trig_mask", mask, stage, 0, 0, 0, NoFlags)
    /\ pc' = "encoded"
    /\ UNCHANGED <<args, ctr, status, argv, cfg, after_trig, wire, eof, rd, ident, cap, buf, fmt, meta, out>>

EncTrigValue ==
    /\ pc = "enc"
    /\ \E stage \in 0 .. 4, vals \in Words32 :
         /\ cmd' = cmd_trig_value(stage, vals)
         /\ call' = Call("trig_value", vals, stage, 0, 0, 0, NoFlags)
    /\ pc' = "encoded"
    /\ UNCHANGED <<args, ctr, status, argv, cfg, after_trig, wire, eof, rd, ident, cap, buf, fmt, meta, out>>

EncTrigCfg ==
    /\ pc = "enc"
    /\ \E stage \in 0 .. 4, delay \in Words16, level \in 0 .. 4, channel \in 0 .. 32,
          serial \in BOOLEAN, start \in BOOLEAN :
         /\ cmd' = cmd_trig_cfg(stage, delay, level, channel, serial, start)
         /\ call' = Call("trig_cfg", WZero, stage, delay, level, channel,
                         <<serial, start, FALSE, FALSE, FALSE>>)
    /\ pc' = "encoded"
    /\ UNCHANGED <<args, ctr, status, argv, cfg, after_trig, wire, eof, rd, ident, cap, buf, fmt, meta, out>>

InitEnc ==
    /\ pc = "enc"
    /\ ctr = 0
    /\ status = "running"
    /\ args = <<>>
    /\ argv = <<>>
    /\ cfg = cfg_init
    /\ after_trig = UINT32_MAX
    /\ wire = <<>>
    /\ eof = FALSE
    /\ rd = read_idle
    /\ ident = <<>>
    /\ cmd = [data |-> <<0, 0, 0, 0, 0>>, len |-> 0]
    /\ call = Call("", WZero, 0, 0, 0, 0, NoFlags)
    /\ cap = cap_init
    /\ buf = <<>>
    /\ fmt = fmt_init
    /\ meta = meta_init
    /\ out = <<>>

NextEnc ==
    \/ EncDivider
    \/ EncCounts
    \/ EncFlags
    \/ EncTrigMask
    \/ EncTrigValue
    \/ EncTrigCfg

SpecEnc == InitEnc /\ [][NextEnc]_vars

(***************************************************************************)
(* Properties                                                              *)
(***************************************************************************)
IsPrefix(p, q) == Len(p) <= Len(q) /\ \A k \in 1 .. Len(p) : p[k] = q[k]

\* the bytes of the handshake: five resets and identify
Handshake == <<0, 0, 0, 0, 0, 2>>

\* the program positions inside capture, from its first reset on
CapturePcs == {"cap_reset", "cap_trig", "cap_counts", "cap_flags", "cap_run",
               "cap_malloc", "cap_read", "dump", "vcd_header", "vcd_sample"}

\* the positions of capture after run has been written
AfterRunPcs == {"cap_malloc", "cap_read", "dump", "vcd_header", "vcd_sample"}

\* what capture has written: the wire after the handshake
CaptureWire == SubSeq(wire, 7, Len(wire))

\* a 5-byte frame with a little-endian operand; AnyByte stands for a byte the
\* property leaves open
AnyByte == 0 - 1
Frame32(opcode, w) == <<opcode, Byte(w, 0), Byte(w, 1), Byte(w, 2), Byte(w, 3)>>
FrameAny(opcode) == <<opcode, AnyByte, AnyByte, AnyByte, AnyByte>>

\* trigger config of a stage: delay 0, channel 0, not serial
FrameTrigCfg(stage, level, start) ==
    <<194 + 4 * stage, 0, 0, level, IF start THEN 8 ELSE 0>>

RECURSIVE DisabledStages(_)
DisabledStages(stage) ==
    IF stage > 3 THEN <<>>
    ELSE Frame32(192 + 4 * stage, WZero) \o Frame32(193 + 4 * stage, WZero)
         \o FrameTrigCfg(stage, 3, FALSE) \o DisabledStages(stage + 1)

\* the capture sequence of the specification for configuration c
CaptureSequence(c) ==
    <<0, 0, 0, 0, 0>>
    \o Frame32(128, Sub32(c.clk_divisor, W(1)))
    \o (IF c.trigger_mask = WZero
        THEN Frame32(192, WZero) \o Frame32(193, WZero) \o FrameTrigCfg(0, 0, TRUE)
        ELSE Frame32(192, c.trigger_mask) \o Frame32(193, c.trigger_value)
             \o FrameTrigCfg(0, 0, TRUE) \o DisabledStages(1))
    \o FrameAny(129)
    \o FrameAny(130)
    \o <<1>>

MatchesPrefix(w, pattern) ==
    /\ Len(w) <= Len(pattern)
    /\ \A k \in 1 .. Len(w) : pattern[k] = AnyByte \/ pattern[k] = w[k]

\* C1: what capture writes is, at every moment, an initial part of: five
\* resets, set_divider(clk_divisor - 1), the trigger frames (stage 0 alone
\* when trigger_mask is 0, else stage 0 with the user's mask and value and
\* stages 1-3 disabled with level 3), set_read_delay_counts, set_flags, run;
\* the whole sequence has been written, run last, before the sample read
\* starts, and nothing is written after run.
C1_CaptureSequence ==
    /\ Len(wire) > 6 => SubSeq(wire, 1, 6) = Handshake
    /\ pc \in CapturePcs => Len(wire) >= 6
    /\ MatchesPrefix(CaptureWire, CaptureSequence(cfg))
    /\ (pc \in AfterRunPcs \/ status = "ok" \/ buf # <<>> \/ out # <<>>)
          => Len(CaptureWire) = Len(CaptureSequence(cfg))
    /\ pc \in {"cap_reset", "cap_trig", "cap_counts", "cap_flags", "cap_run"}
          => rd.bytes = W(4) /\ buf = <<>>

\* C1 witness: a capture with a trigger has written all of its 27 frames and
\* is reading the samples
C1_Witness ==
    /\ pc = "cap_read"
    /\ cfg.trigger_mask # WZero
    /\ Len(CaptureWire) = 5 + 5 + 60 + 5 + 5 + 1
    /\ rd.pos # WZero

\* C2: the handshake writes five resets and identify and only then reads;
\* the read is of 4 bytes; an ident other than "1ALS" ends the program with a
\* failure status and nothing more is ever written; with "1ALS" the program
\* goes on.
C2_State ==
    /\ IsPrefix(SubSeq(wire, 1, IF Len(wire) < 6 THEN Len(wire) ELSE 6), Handshake)
    /\ pc = "ident_read" => wire = Handshake /\ rd.bytes = W(4)
    /\ rd.pos # WZero => wire = Handshake \/ Len(wire) > 6
    /\ ident # <<>> => Len(ident) = 4
    /\ (ident # <<>> /\ ident # SumpIdent)
          => status = "failure" /\ pc = "exit" /\ wire = Handshake

C2_Handshake ==
    /\ []C2_State
    /\ [][(pc = "ident_read" /\ read_done /\ rd.data = SumpIdent)
            => (pc' = "derive" /\ status' = "running")]_vars

\* C2 witness: a device that answered "1ALX" has ended the program
C2_Witness ==
    /\ ident = <<49, 65, 76, 88>>
    /\ status = "failure"
    /\ wire = Handshake

\* the fields of a frame by the layout of the protocol
And8(x, m) == And16(x, m, 8)
Le16(f, k) == f.data[k] + 256 * f.data[k + 1]
Le32(f) == W32(Le16(f, 4), Le16(f, 2))
FlagsOf(f) ==
    <<And8(f.data[2], 1) # 0, And8(f.data[2], 2) # 0, And8(f.data[2], 64) # 0,
      And8(f.data[2], 128) # 0, And8(f.data[3], 1) # 0>>

\* the call a frame decodes to
Decoded(f) ==
    LET op == f.data[1] IN
    CASE op = 128 -> Call("divider", Le32(f), 0, 0, 0, 0, NoFlags)
      [] op = 129 -> Call("counts", W(Le16(f, 2)), 0, Le16(f, 4), 0, 0, NoFlags)
      [] op = 130 -> Call("flags", W(And8(f.data[2], 60) \div 4), 0, 0, 0, 0, FlagsOf(f))
      [] op >= 192 /\ op % 4 = 0 ->
            Call("trig_mask", Le32(f), (op - 192) \div 4, 0, 0, 0, NoFlags)
      [] op >= 192 /\ op % 4 = 1 ->
            Call("trig_value", Le32(f), (op - 193) \div 4, 0, 0, 0, NoFlags)
      [] op >= 192 /\ op % 4 = 2 ->
            Call("trig_cfg", WZero, (op - 194) \div 4, Le16(f, 2),
                 And8(f.data[4], 3),
                 (f.data[4] \div 16) + 16 * And8(f.data[5], 1),
                 <<And8(f.data[5], 4) # 0, And8(f.data[5], 8) # 0, FALSE, FALSE, FALSE>>)
      [] OTHER -> Call("", WZero, 0, 0, 0, 0, NoFlags)

\* whether the arguments of a call are in the range its encoder accepts
InRange(k) ==
    /\ k.stage <= 3 /\ k.level <= 3 /\ k.channel <= 31
    /\ k.fn = "divider" => Byte(k.w, 3) = 0
    /\ k.fn = "flags" => N(k.w) <= 15

\* C3: every encoder, given arguments in range, yields a 5-byte frame whose
\* bytes are bytes, whose opcode is the stated one and whose fields, read back
\* by the stated layout, are the arguments given; the bytes the layout leaves
\* unused are 0.
C3_RoundTrip ==
    (pc = "encoded" /\ InRange(call)) =>
        /\ cmd.len = 5 /\ Len(cmd.data) = 5
        /\ \A k \in 1 .. 5 : cmd.data[k] \in 0 .. 255
        /\ Decoded(cmd) = call
        /\ call.fn = "divider" => cmd.data[5] = 0
        /\ call.fn = "flags" => /\ cmd.data[4] = 0 /\ cmd.data[5] = 0
                                /\ And8(cmd.data[3], 254) = 0
        /\ call.fn = "trig_cfg" => /\ And8(cmd.data[4], 12) = 0
                                   /\ And8(cmd.data[5], 242) = 0

\* C3 witness: a trigger config for stage 3, channel 31, level 3, serial and
\* start, delay 0x1234 has been encoded
C3_Witness ==
    /\ pc = "encoded"
    /\ call = Call("trig_cfg", WZero, 3, 4660, 3, 31, <<TRUE, TRUE, FALSE, FALSE, FALSE>>)
    /\ cmd.data = <<206, 52, 18, 243, 13>>

\* C4: after derivation num_groups_enabled is the number of set bits of
\* group_enable & group_mask.
C4_PopCount ==
    pc \in CapturePcs =>
        cfg.num_groups_enabled = PopCount(WAnd(cfg.group_enable, cfg.group_mask))

\* the capture has been rendered to its end
Rendered == pc = "exit" /\ status = "ok" /\ Tracked(rd.bytes)

\* the bytes of the sample that is number k from the last stored (k from 0)
SampleFromEnd(k) ==
    LET nge == cfg.num_groups_enabled
        cs == N(cap.capture_samples)
    IN  SubSeq(buf, (cs - 1 - k) * nge + 1, (cs - k) * nge)

HexValue(ch) == CHOOSE d \in 0 .. 15 : HexDigits[d + 1] = ch

\* the bytes a line of hex digits ending in a newline stands for
RECURSIVE UnHex(_)
UnHex(line) ==
    IF Len(line) < 2 THEN <<>>
    ELSE <<16 * HexValue(line[1]) + HexValue(line[2])>> \o UnHex(Tail(Tail(line)))

\* C5: in hex mode the output has capture_samples lines and line k holds the
\* bytes of the sample stored at offsets (capture_samples-1-k)*num_groups_enabled
\* onwards, in buffer order.
C5_HexDump ==
    (Rendered /\ cfg.vcd = <<>> /\ ~cfg.raw) =>
        /\ Len(out) = N(cap.capture_samples)
        /\ \A k \in 0 .. (Len(out) - 1) :
              /\ Len(out[k + 1]) = 2 * cfg.num_groups_enabled + 1
              /\ out[k + 1][Len(out[k + 1])] = "\n"
              /\ UnHex(out[k + 1]) = SampleFromEnd(k)

\* C6: in raw mode the output is one chunk per captured sample, the samples
\* taken from the last stored to the first stored, each verbatim.
C6_RawDump ==
    (Rendered /\ cfg.vcd = <<>> /\ cfg.raw) =>
        /\ Len(out) = N(cap.capture_samples)
        /\ \A k \in 0 .. (Len(out) - 1) : out[k + 1] = SampleFromEnd(k)

\* the lines of the VCD output written at sample index at
ValueLines(at, id) ==
    {k \in 1 .. Len(out) :
        out[k].kind \in {"scalar", "vector"} /\ out[k].at = at /\ out[k].id = id}
TimeLines(at) == {k \in 1 .. Len(out) : out[k].kind = "#" /\ out[k].at = at}
AllValueLines(at) ==
    {k \in 1 .. Len(out) : out[k].kind \in {"scalar", "vector"} /\ out[k].at = at}

\* the sample before index at, 0 before the first
PrevCur(at) == IF at = 0 THEN WZero ELSE fmt.curs[at]

Changed(at) == WXor(PrevCur(at), fmt.curs[at + 1])

\* C7: prev starts at 0 and is the sample just handled; a value is written at
\* sample index at exactly when the changed bits meet its mask or at is the
\* last index; a sample has one '#' line, before its values, when it has a
\* value written and none otherwise.
C7_ChangeDetection ==
    (cfg.vcd # <<>> /\ (pc = "vcd_sample" \/ Rendered)) =>
        /\ fmt.prev = IF fmt.curs = <<>> THEN WZero ELSE fmt.curs[Len(fmt.curs)]
        /\ Len(fmt.curs) = ctr
        /\ \A at \in 0 .. (Len(fmt.curs) - 1) :
              /\ \A v \in 1 .. Len(cfg.vcd) :
                    /\ Cardinality(ValueLines(at, 32 + v)) <= 1
                    /\ ValueLines(at, 32 + v) # {}
                          <=> \/ WAnd(Changed(at), cfg.vcd[v].mask) # WZero
                              \/ at = N(cap.capture_samples) - 1
              /\ Cardinality(TimeLines(at)) <= 1
              /\ TimeLines(at) # {} <=> AllValueLines(at) # {}
              /\ \A t \in TimeLines(at), k \in AllValueLines(at) : t < k

\* C7 witness: samples 0b01 then 0b11 and a value of mask 0b10: nothing is
\* written at index 0, the value is written at index 1, which is not the last
C7_Witness ==
    /\ pc = "vcd_sample"
    /\ Len(cfg.vcd) = 1 /\ cfg.vcd[1].mask = W(2)
    /\ N(cap.capture_samples) = 3
    /\ Len(fmt.curs) = 2 /\ fmt.curs[1] = W(1) /\ fmt.curs[2] = W(3)
    /\ ValueLines(0, 33) = {} /\ TimeLines(0) = {}
    /\ ValueLines(1, 33) # {} /\ TimeLines(1) # {}

\* write_vcd has computed the time scale
Scaled == cfg.vcd # <<>> /\ (pc = "vcd_sample" \/ Rendered)

RECURSIVE Pow10(_)
Pow10(n) == IF n = 0 THEN W(1) ELSE WMulSmall(Pow10(n - 1), 10)

\* clk_divisor * 10^n / clk_freq_hz >= k
ScaledAtLeast(n, k) ==
    ~WLt(WMul(Pow10(n), cfg.clk_divisor), WMulSmall(cfg.clk_freq_hz, k))

TimescaleLine(mult, unit) ==
    \E k \in 1 .. Len(out) :
        out[k].kind = "$timescale" /\ out[k].n = mult /\ out[k].text = unit

Example100MHz == cfg.clk_freq_hz = W32(1525, 57600) /\ cfg.clk_divisor = W(11)

\* C8 as stated: the steps are the fewest that bring the period to 100, the
\* scaled period is in [100, 1000), and 100 MHz with divisor 11 gives 100ns.
C8_AsStated ==
    Scaled =>
        /\ ScaledAtLeast(fmt.ntens, 100)
        /\ fmt.ntens = 0 \/ ~ScaledAtLeast(fmt.ntens - 1, 100)
        /\ ~ScaledAtLeast(fmt.ntens, 1000)
        /\ Example100MHz => TimescaleLine(100, "ns")

\* C8: the steps are the fewest that bring the period to 100; the scaled
\* period is below 1000 when a step was taken; 100 MHz with divisor 11 takes 9
\* steps and the header reads '$timescale 1ns $end'.
C8_TimeScale ==
    Scaled =>
        /\ ScaledAtLeast(fmt.ntens, 100)
        /\ fmt.ntens = 0 \/ ~ScaledAtLeast(fmt.ntens - 1, 100)
        /\ fmt.ntens > 0 => ~ScaledAtLeast(fmt.ntens, 1000)
        /\ Example100MHz =>
              /\ fmt.ntens = 9
              /\ TimescaleLine(1, "ns")
              /\ \A k \in 1 .. Len(out) :
                    out[k].kind = "$timescale" => out[k].n = 1 /\ out[k].text = "ns"

\* C8 witness: the header of a capture at 100 MHz with divisor 11 is written
C8_Witness ==
    /\ pc = "vcd_sample"
    /\ Example100MHz
    /\ fmt.ntens = 9
    /\ TimescaleLine(1, "ns")

\* the command line gave a clock frequency of 0
ZeroFreq == pc # "enc" /\ cfg.clk_freq_hz = WZero

\* C9 as stated: with a clock frequency of 0 nothing is ever written to the
\* transport.
C9_AsStated == ZeroFreq => wire = <<>>

\* C9: with a clock frequency of 0 the program never succeeds and never
\* writes a capture frame: at most the handshake is written, and once the
\* device has identified itself the program ends with a failure status.
C9_ZeroFreq ==
    ZeroFreq =>
        /\ IsPrefix(wire, Handshake)
        /\ pc \notin CapturePcs
        /\ status # "ok"
        /\ (ident = SumpIdent /\ pc = "exit") => status \in {"failure", "fault"}

\* C9 witness: the program has ended on the zero clock frequency after the
\* handshake with a device that identified itself
C9_Witness ==
    /\ ZeroFreq
    /\ ident = SumpIdent
    /\ status = "failure"
    /\ wire = Handshake

\* a read_tty call is waiting for bytes
Reading == pc \in {"ident_read", "cap_read"} /\ ~read_done

\* C10: once the program has ended nothing more is written or read, and
\* every transport read ends.
C10_Transport ==
    /\ [][status # "running" => UNCHANGED <<wire, rd>>]_vars
    /\ (Reading ~> ~Reading)

\* the option loop takes the extmeta option
ExtmetaTaken ==
    /\ pc = "parse" /\ argv # <<>> /\ Head(argv).opt = "extmeta"
    /\ argv' = Tail(argv)

\* the 6 handshake bytes followed by get_metadata
HandshakeMeta == Handshake \o <<4>>

\* C11: the extmeta option enables extended-metadata mode, get_metadata is
\* written after a successful identification exactly when the mode is
\* enabled, and without the option it is never written.
C11_Extmeta ==
    /\ [][ExtmetaTaken => cfg'.ext_meta]_vars
    /\ [][(pc = "ident_read" /\ pc' \notin {"ident_read", "exit"})
             => (pc' = "meta_get" <=> cfg.ext_meta)]_vars
    /\ [](~cfg.ext_meta => ~IsPrefix(HandshakeMeta, wire))

\* the payload b0 b1 b2 b3 read most significant byte first
BigEndian(b) == W32(b[1] * 256 + b[2], b[3] * 256 + b[4])

\* the index of the first NUL of s at or after p, Len(s) + 1 if there is none
FirstNul(s, p) ==
    LET nuls == {k \in p .. Len(s) : s[k] = 0} IN
    IF nuls = {} THEN Len(s) + 1
    ELSE CHOOSE k \in nuls : \A j \in nuls : k <= j

\* decoding the stream s from index p on by the stated layout: the three
\* fields and the number of bytes taken when decoding ends
RECURSIVE Decode(_, _, _)
Decode(s, p, f) ==
    IF p > Len(s) THEN [f EXCEPT !.taken = Len(s)]
    ELSE LET tag == s[p]
             kind == tag \div 32
             id == tag % 32
         IN  IF tag = 0 \/ kind > 2 THEN [f EXCEPT !.taken = p]
             ELSE IF kind = 0 THEN Decode(s, FirstNul(s, p + 1) + 1, f)
             ELSE IF kind = 2 THEN Decode(s, p + 2, f)
             ELSE IF p + 4 > Len(s) THEN [f EXCEPT !.taken = Len(s)]
             ELSE LET v == BigEndian(SubSeq(s, p + 1, p + 4)) IN
                  Decode(s, p + 5,
                         IF id = 0 THEN [f EXCEPT !.num_probes = v]
                         ELSE IF id = 1 THEN [f EXCEPT !.sample_memory = v]
                         ELSE IF id = 3 THEN [f EXCEPT !.clk_freq_hz = v]
                         ELSE f)

Decoded0 ==
    [num_probes |-> cfg_init.num_probes, sample_memory |-> cfg_init.sample_memory,
     clk_freq_hz |-> cfg_init.clk_freq_hz, taken |-> 0]

\* C12: when the metadata loop is left, num_probes, sample_memory and
\* clk_freq_hz are what the big-endian decoding of the entries gives, and no
\* byte after the zero tag has been read.
C12_MetaDecode ==
    (pc = "derive" /\ meta.how # "") =>
        LET d == Decode(MetaStream, 1, Decoded0) IN
        /\ cfg.num_probes = d.num_probes
        /\ cfg.sample_memory = d.sample_memory
        /\ cfg.clk_freq_hz = d.clk_freq_hz
        /\ meta.pos = d.taken

\* the numbers of bytes before the tags of the stream s from index p on, a
\* string ending with its first NUL
RECURSIVE TagOffsets(_, _)
TagOffsets(s, p) ==
    IF p > Len(s) THEN {p - 1}
    ELSE LET kind == s[p] \div 32 IN
         {p - 1} \cup
         (IF s[p] = 0 \/ kind > 2 THEN {}
          ELSE IF kind = 0 THEN TagOffsets(s, FirstNul(s, p + 1) + 1)
          ELSE IF kind = 1 THEN TagOffsets(s, p + 5)
          ELSE TagOffsets(s, p + 2))

\* C13: a string entry takes the bytes up to and including its first NUL and
\* no more, whatever its length, so every tag is read where an entry starts;
\* nothing is written outside val[0 .. 255].
C13_StringFraming ==
    /\ [](meta.vmax <= VAL_SIZE - 1)
    /\ [](pc = "meta_str" => meta.i <= VAL_SIZE - 1)
    /\ []((pc = "meta_tag" /\ status = "running") =>
             meta.pos \in TagOffsets(MetaStream, 1))
    /\ []((pc = "meta_drain" \/ (pc = "meta_str" /\ meta.i > 0)) =>
             MetaStream[meta.pos] # 0)
    /\ [][(pc \in {"meta_str", "meta_drain"} /\ pc' = "meta_tag")
             => (meta'.pos = meta.pos + 1 /\ MetaStream[meta'.pos] = 0)]_vars

\* C13 witness: a string of 300 bytes and its NUL have been taken, val was
\* filled to its last byte, and the next tag is about to be read
C13_Witness ==
    /\ pc = "meta_tag"
    /\ MetaStream[1] = 1
    /\ meta.pos = VAL_SIZE + 46
    /\ MetaStream[meta.pos] = 0
    /\ meta.vmax = VAL_SIZE - 1

\* the three fields the metadata may set
MetaFields(c) == <<c.num_probes, c.sample_memory, c.clk_freq_hz>>

\* C14: a tag with top bits 3..7 leaves the loop for the derivation with the
\* program still running and the configuration as the earlier entries left
\* it, and no metadata byte is read after it.
C14_UnexpectedKind ==
    /\ [][(pc = "meta_tag" /\ read_done /\ rd.data[1] \div 32 > 2)
             => /\ pc' = "derive"
                /\ status' = "running"
                /\ cfg' = cfg
                /\ meta'.pos = meta.pos + 1]_vars
    /\ [][meta.how = "unexpected"
             => /\ meta'.pos = meta.pos
                /\ MetaFields(cfg') = MetaFields(cfg)]_vars
    /\ [](meta.how = "unexpected" => pc \notin MetaPcs)

\* C14 witness: num_probes was set to 9, a tag of kind 7 followed, and the
\* capture has run to its end
C14_Witness ==
    /\ meta.how = "unexpected"
    /\ meta.tag = 224
    /\ cfg.num_probes = W(9)
    /\ cfg.sample_memory = cfg_init.sample_memory
    /\ pc = "exit" /\ status = "ok"

\* the positions in the command line of the options named name
OptIdx(name) == {k \in 1 .. Len(args) : args[k].opt = name}

Given(name) == OptIdx(name) # {}

\* the operand of the last option named name
LastArg(name) ==
    args[CHOOSE k \in OptIdx(name) : \A j \in OptIdx(name) : j <= k].a

\* C15: with an after count on the command line the derived before_trig is
\* samples - min(after_trig, samples) whatever 'before' says; without one it
\* is the 'before' value or 4.
C15_AfterTrig ==
    pc \in CapturePcs =>
        cfg.before_trig =
            IF Given("after")
            THEN WSub(cfg.samples, WMin(LastArg("after"), cfg.samples))
            ELSE IF Given("before") THEN LastArg("before") ELSE W(4)

\* the group_enable asked for on the command line
RequestedGroups == IF Given("groups") THEN LastArg("groups") ELSE WZero

\* main has derived group_mask
Derived == ident = SumpIdent /\ pc \notin ({"derive", "meta_get"} \cup MetaPcs)

\* C16: a group_enable above group_mask never ends the program with a fault
\* or an abort, and capture uses the bits of it inside group_mask.
C16_GroupWarning ==
    (Derived /\ WLt(cfg.group_mask, RequestedGroups)) =>
        /\ status \notin {"fault", "abort"}
        /\ pc \in CapturePcs =>
              /\ cfg.num_groups_enabled >= 1
              /\ group_dis_of(cfg) =
                    WAnd(Not32(RequestedGroups), cfg.group_mask)

\* the 16-bit little-endian field of cmd at data[k], data[k + 1]
Field16(k) == W(cmd.data[k] + 256 * cmd.data[k + 1])

\* C17: the set_read_delay_counts frame carries capture_samples / 4 and
\* (capture_samples - before_samples) / 4, with capture_samples and
\* before_samples the stated minima and before_samples <= capture_samples.
C17_Counts ==
    (pc = "cap_flags" /\ cfg.num_groups_enabled >= 1) =>
        LET cs == cap.capture_samples
            bs == cap.before_samples
        IN  /\ cs = WMin(cfg.samples,
                         WDiv(cfg.sample_memory, W(cfg.num_groups_enabled)))
            /\ bs = WMin(cfg.before_trig, cs)
            /\ WLe(bs, cs)
            /\ cmd.len = 5 /\ cmd.data[1] = 129
            /\ SubSeq(wire, Len(wire) - 4, Len(wire)) = cmd.data
            /\ Field16(2) = WDivSmall(cs, 4)
            /\ Field16(4) = WDivSmall(WSub(cs, bs), 4)
            /\ WLe(Field16(4), Field16(2))

\* the word 2^n, n below 64
Pow2(n) ==
    <<IF n \div 16 = 0 THEN 2 ^ (n % 16) ELSE 0,
      IF n \div 16 = 1 THEN 2 ^ (n % 16) ELSE 0,
      IF n \div 16 = 2 THEN 2 ^ (n % 16) ELSE 0,
      IF n \div 16 = 3 THEN 2 ^ (n % 16) ELSE 0>>

\* C18: max_groups is ceil(num_probes / 8), group_mask is 2^max_groups - 1,
\* and a group_enable of 0 becomes group_mask.
C18_MaxGroups ==
    pc \in CapturePcs =>
        LET mg == WDivSmall(WAdd(cfg.num_probes, W(7)), 8) IN
        /\ cfg.max_groups = mg
        /\ WLt(mg, W(48))
        /\ cfg.group_mask = WSub(Pow2(IF WLt(mg, W(48)) THEN N(mg) ELSE 0), W(1))
        /\ RequestedGroups = WZero => cfg.group_enable = cfg.group_mask

\* the VCD values of cfg that the option vcd data=0x6,0x80 defined
DataValues ==
    {v \in 1 .. Len(cfg.vcd) :
        /\ cfg.vcd[v].name = "data"
        /\ \E k \in 1 .. Len(args) : args[k] = Vcd("data", <<W(6), W(128)>>)}

\* bit k of the sample at index at
SampleBit(at, k) == WBit(fmt.curs[at + 1], k)

\* the lines that print value v for a sample
VectorLines(v) ==
    {k \in 1 .. Len(out) :
        out[k].kind = "vector" /\ out[k].id = 32 + v /\ out[k].at >= 0}

NextReads ==
    LET nge == cfg.num_groups_enabled IN
    IF pc = "dump" /\ Tracked(rd.bytes) /\ ctr < N(cap.capture_samples)
    THEN dump_from(fmt.ptr, nge) .. (dump_from(fmt.ptr, nge) + nge - 1)
    ELSE IF pc = "vcd_sample" /\ ctr < N(cap.capture_samples)
    THEN (fmt.ptr - nge) .. (fmt.ptr - 1)
    ELSE {}

\* C20: every byte an output mode reads is inside the sample buffer.
C20_ReadsInBuffer == NextReads \subseteq 0 .. (Len(buf) - 1)

\* the frames capture has written last when the sample read starts:
\* set_read_delay_counts, set_flags, run
CountsFrame == SubSeq(wire, Len(wire) - 10, Len(wire) - 6)
FlagsFrame == SubSeq(wire, Len(wire) - 5, Len(wire) - 1)

\* the read count field of the set_read_delay_counts frame
ReadCountField == CountsFrame[2] + 256 * CountsFrame[3]

\* the group disable bits of the set_flags frame
DisableField == (FlagsFrame[2] \div 4) % 16

\* the groups within group_mask that the set_flags frame does not disable
GroupsNotDisabled ==
    {g \in 0 .. 31 :
        /\ WBit(cfg.group_mask, g) = 1
        /\ g > 3 \/ (DisableField \div (2 ^ g)) % 2 = 0}

\* the bytes the frames written ask the device to return
RequestedBytes == WMulSmall(W(ReadCountField), 4 * Cardinality(GroupsNotDisabled))

\* C21: the blocking sample read waits for exactly the bytes the frames ask
\* the device to return, 4 * read count * groups not disabled, so that a
\* device returning exactly the requested samples lets the read complete.
C21_ReadBytes ==
    pc = "cap_read" =>
        /\ CountsFrame[1] = 129 /\ FlagsFrame[1] = 130 /\ wire[Len(wire)] = 1
        /\ rd.bytes = RequestedBytes

\* the power of ten in a unit of the header: "ns" is 10^-9 s
UnitExp(text) == 3 * ((CHOOSE u \in 1 .. Len(units) : units[u] = text) - 1)

\* the timestamp that stands for the time of sample index at, at / (clk_freq_hz
\* / clk_divisor) seconds, in time units of mult * 10^-e seconds, truncated
TimeInUnits(at, mult, e) ==
    WDiv(WMul(WMulSmall(Pow10(e), at), cfg.clk_divisor),
         WMulSmall(cfg.clk_freq_hz, mult))

\* C22: every timestamp written, times the duration the $timescale line
\* declares, is the elapsed time of its sample index truncated to a whole time
\* unit, and the declared time unit is 10^-n seconds for the n x10 steps taken.
C22_Timestamps ==
    (Scaled /\ cfg.clk_divisor # WZero) =>
        \A h \in 1 .. Len(out) :
            out[h].kind = "$timescale" =>
                /\ WMulSmall(Pow10(fmt.ntens), out[h].n) = Pow10(UnitExp(out[h].text))
                /\ \A k \in 1 .. Len(out) :
                      out[k].kind = "#" =>
                          W(out[k].n) =
                              TimeInUnits(out[k].at, out[h].n, UnitExp(out[h].text))

\* C23: no accepted configuration trips an encoder precondition: no encoder
\* assert fails and no division by zero ends the program, and once capture
\* is reached clk_divisor - 1 fits in 24 bits, group_disable fits in 4 bits
\* and num_groups_enabled is at least 1; the unit index write_vcd computes is
\* below 6.
C23_Preconditions ==
    /\ cmd # AssertFailed
    /\ status # "fault"
    /\ pc \in CapturePcs =>
          /\ Shr32(Sub32(cfg.clk_divisor, W(1)), 24) = WZero
          /\ Shr32(group_dis_of(cfg), 4) = WZero
          /\ cfg.num_groups_enabled >= 1
    /\ pc = "vcd_header" =>
          unit_of(scale_loop(cfg.clk_divisor, cfg.clk_freq_hz, W(1), 0).ntens) < 6

====
